---- MODULE Spec2Model ----
(***************************************************************************)
(* Climb detection of the GPX elevation profiler (lib/climb-detector):     *)
(* detectClimbs, smoothElevationForClimbDetection, categorizeClimb,        *)
(* generateClimbName and mergeNearbyClimbs, as a state machine whose       *)
(* steps are the iterations of the two loops.                              *)
(*                                                                         *)
(* Numbers.  The source computes with JavaScript numbers; the model        *)
(* computes with exact numbers.  A distance is an integer count of         *)
(* 1/DistPerKm km, an elevation is an integer count of 1/ElevPerM m        *)
(* (ElevPerM = 2*windowSize+1, so that the mean of a smoothing window of   *)
(* whole-metre samples is again an integer count), and a gradient or a     *)
(* score is a fraction [num, den] in lowest terms with den > 0.            *)
(* Sequences are indexed from 1: At(s, k) is the source's s[k].            *)
(***************************************************************************)
EXTENDS Integers, Sequences, FiniteSets, TLC

VARIABLES
    pc,                  \* position: "call", "scan", "mergeCall", "merge", "done", "categorize"
    elevationPoints,     \* detectClimbs: the argument
    smoothedPoints,      \* detectClimbs: const smoothedPoints
    i,                   \* detectClimbs: the scan's loop index
    isClimbing,          \* detectClimbs: let isClimbing
    climbStart,          \* detectClimbs: let climbStart (<<>> for null, or <<distance>>)
    climbStartElevation, \* detectClimbs: let climbStartElevation (<<>> for null, or <<elevation>>)
    currentElevation,    \* detectClimbs: let currentElevation
    climbs,              \* detectClimbs: const climbs / mergeNearbyClimbs: the argument
    mi,                  \* mergeNearbyClimbs: the loop index
    merged,              \* mergeNearbyClimbs: const merged
    result,              \* the value returned by the call
    score,               \* categorizeClimb: the argument
    category,            \* categorizeClimb: the value returned
    gpxData,             \* page: useState gpxData (<<>> for null, or <<data>>)
    detectedClimbs,      \* page: useState detectedClimbs
    labels,              \* page: useState labels (the profile's prop labels)
    isAddingLabel,       \* page: useState isAddingLabel (the profile's prop)
    newLabelName,        \* page: useState newLabelName, a sequence of characters
    selectedCategory,    \* page: useState selectedCategory (NULL for undefined)
    dragState,           \* profile: useState dragState
    buttonDown,          \* the mouse: its button is held
    pressedInside,       \* the mouse: the button went down over the canvas
    pointerInside        \* the mouse: the pointer is over the canvas

\* the state of the page and of the profile it renders
uiVars == <<gpxData, detectedClimbs, labels, isAddingLabel, newLabelName,
            selectedCategory, dragState, buttonDown, pressedInside, pointerInside>>

\* the state of a call of detectClimbs
callVars == <<pc, elevationPoints, smoothedPoints, i, isClimbing, climbStart,
              climbStartElevation, currentElevation, climbs, mi, merged, result,
              score, category>>

vars == <<callVars, uiVars>>

NULL == "null"

\* dragState when no label is dragged
NoDrag ==
    [isDragging |-> FALSE, labelId |-> <<>>, startX |-> 0, startY |-> 0,
     initialCustomX |-> 0, initialCustomY |-> 0]

\* the page as its useState calls leave it, the mouse at rest outside the canvas
Mounted ==
    /\ gpxData = <<>>
    /\ detectedClimbs = <<>>
    /\ labels = <<>>
    /\ isAddingLabel = FALSE
    /\ newLabelName = <<>>
    /\ selectedCategory = NULL
    /\ dragState = NoDrag
    /\ buttonDown = FALSE
    /\ pressedInside = FALSE
    /\ pointerInside = FALSE

At(s, k) == s[k + 1]

(***************************************************************************)
(* Program constants and units.                                            *)
(***************************************************************************)
minSamples == 10
minElevationGain == 30
gradientThreshold == 3
windowSize == 3
minSmoothLength == 5
peakLookAhead == 20
peakDrop == 10
minDistanceBetweenClimbs == 2

DistPerKm == 100
ElevPerM == windowSize * 2 + 1

(***************************************************************************)
(* Exact fractions.                                                        *)
(***************************************************************************)
Abs(x) == IF x < 0 THEN -x ELSE x

RECURSIVE GCD(_, _)
GCD(a, b) == IF b = 0 THEN a ELSE GCD(b, a % b)

Rat(n, d) ==
    LET g == GCD(Abs(n), Abs(d))
        s == IF d < 0 THEN -1 ELSE 1
    IN  [num |-> s * (n \div g), den |-> s * (d \div g)]

FromInt(n) == [num |-> n, den |-> 1]

RatLt(a, b) ==
    LET g == GCD(a.den, b.den)
    IN  a.num * (b.den \div g) < b.num * (a.den \div g)

RatGt(a, b) == RatLt(b, a)
RatGe(a, b) == ~RatLt(a, b)

RatMul(a, b) ==
    LET g1 == GCD(Abs(a.num), b.den)
        g2 == GCD(Abs(b.num), a.den)
    IN  [num |-> (a.num \div g1) * (b.num \div g2),
         den |-> (a.den \div g2) * (b.den \div g1)]

minClimbLength == Rat(1, 2)

\* a distance as a number of km, an elevation as a number of metres
Km(d) == Rat(d, DistPerKm)
Metres(e) == Rat(e, ElevPerM)

\* (elevation / (distance * 1000)) * 100, for distance > 0
Percent(elevation, distance) ==
    Rat(elevation * DistPerKm * 100, ElevPerM * distance * 1000)


(***************************************************************************)
(* smoothElevationForClimbDetection: centred moving average over           *)
(* 2*windowSize+1 samples of the original points; the first and the last   *)
(* windowSize samples are passed through.                                  *)
(***************************************************************************)
\* variant: the window loop with j < i + windowSize in place of j <= i + windowSize
RECURSIVE WindowSumExclusive(_, _, _)
WindowSumExclusive(points, j, last) ==
    IF j >= last THEN 0
    ELSE At(points, j).elevation + WindowSumExclusive(points, j + 1, last)

RECURSIVE WindowSum(_, _, _)
WindowSum(points, j, last) ==
    IF j > last THEN 0
    ELSE At(points, j).elevation + WindowSum(points, j + 1, last)

smoothElevationForClimbDetection(points) ==
    IF Len(points) < minSmoothLength THEN points
    ELSE [k \in 1..Len(points) |->
            LET idx == k - 1 IN
            IF idx >= windowSize /\ idx < Len(points) - windowSize
            THEN [distance |-> At(points, idx).distance,
                  elevation |-> WindowSum(points, idx - windowSize, idx + windowSize)
                                    \div (windowSize * 2 + 1)]
            ELSE At(points, idx)]

(***************************************************************************)
(* categorizeClimb                                                         *)
(***************************************************************************)
\* variant: the first breakpoint tested with > instead of >=
categorizeClimbStrict(s) ==
    IF RatGt(s, FromInt(600)) THEN "HC"
    ELSE IF RatGe(s, FromInt(300)) THEN "1"
    ELSE IF RatGe(s, FromInt(150)) THEN "2"
    ELSE IF RatGe(s, FromInt(75)) THEN "3"
    ELSE IF RatGt(s, FromInt(0)) THEN "4"
    ELSE NULL

\* variant: the line for category 4 is missing
categorizeClimbNoFour(s) ==
    IF RatGe(s, FromInt(600)) THEN "HC"
    ELSE IF RatGe(s, FromInt(300)) THEN "1"
    ELSE IF RatGe(s, FromInt(150)) THEN "2"
    ELSE IF RatGe(s, FromInt(75)) THEN "3"
    ELSE NULL

categorizeClimb(s) ==
    IF RatGe(s, FromInt(600)) THEN "HC"
    ELSE IF RatGe(s, FromInt(300)) THEN "1"
    ELSE IF RatGe(s, FromInt(150)) THEN "2"
    ELSE IF RatGe(s, FromInt(75)) THEN "3"
    ELSE IF RatGt(s, FromInt(0)) THEN "4"
    ELSE NULL

(***************************************************************************)
(* generateClimbName: the label word and the elevation rounded to 100 m.   *)
(* Math.round(x) is floor(x + 1/2).  The accented words of the source are  *)
(* written without accents.                                                *)
(***************************************************************************)
Round(r) == (2 * r.num + r.den) \div (2 * r.den)

\* variant: the length test ahead of the gradient test
generateClimbNameLengthFirst(elevation, length, gradient) ==
    LET nameType ==
            IF RatGt(Metres(elevation), FromInt(1500)) THEN "Col"
            ELSE IF RatGt(Metres(elevation), FromInt(1000)) THEN "Mont"
            ELSE IF RatGt(Km(length), FromInt(10)) THEN "Col"
            ELSE IF RatGt(gradient, FromInt(10)) THEN "Montee"
            ELSE "Cote"
        elevationSuffix == Round(Rat(elevation, ElevPerM * 100)) * 100
    IN  <<nameType, elevationSuffix, "m">>

generateClimbName(elevation, length, gradient) ==
    LET nameType ==
            IF RatGt(Metres(elevation), FromInt(1500)) THEN "Col"
            ELSE IF RatGt(Metres(elevation), FromInt(1000)) THEN "Mont"
            ELSE IF RatGt(gradient, FromInt(10)) THEN "Montee"
            ELSE IF RatGt(Km(length), FromInt(10)) THEN "Col"
            ELSE "Cote"
        elevationSuffix == Round(Rat(elevation, ElevPerM * 100)) * 100
    IN  <<nameType, elevationSuffix, "m">>

(***************************************************************************)
(* detectClimbs, the body of the scan.                                     *)
(***************************************************************************)
\* variant: the division without the distance > 0 test (x / 0 is an infinity)
GradientUnguarded(elevationChange, distance) ==
    IF distance > 0 THEN Percent(elevationChange, distance)
    ELSE IF elevationChange > 0 THEN [num |-> 1, den |-> 0]
    ELSE IF elevationChange < 0 THEN [num |-> -1, den |-> 0]
    ELSE FromInt(0)

\* const gradient = distance > 0 ? (elevationChange / (distance * 1000)) * 100 : 0
Gradient(elevationChange, distance) ==
    IF distance > 0 THEN Percent(elevationChange, distance) ELSE FromInt(0)

\* variant: >= in place of >
StartsClimbAtThreshold(climbing, gradient) ==
    ~climbing /\ RatGe(gradient, FromInt(gradientThreshold))

\* !isClimbing && gradient > gradientThreshold
StartsClimb(climbing, gradient) ==
    ~climbing /\ RatGt(gradient, FromInt(gradientThreshold))

\* variant: a window is closed by a gradient below the threshold only
EndsClimbNoForce(climbing, gradient, k, n) ==
    climbing /\ RatLt(gradient, FromInt(gradientThreshold))

\* isClimbing && (gradient < gradientThreshold || i === smoothedPoints.length - 1)
EndsClimb(climbing, gradient, k, n) ==
    climbing /\ (RatLt(gradient, FromInt(gradientThreshold)) \/ k = n - 1)

\* variant: || in place of &&
QualifiesEither(climbLength, elevationGain) ==
    \/ RatGe(Km(climbLength), Rat(1, 2))
    \/ RatGe(Metres(elevationGain), FromInt(minElevationGain))

\* climbLength >= minClimbLength && elevationGain >= minElevationGain
Qualifies(climbLength, elevationGain) ==
    /\ RatGe(Km(climbLength), minClimbLength)
    /\ RatGe(Metres(elevationGain), FromInt(minElevationGain))

\* averageGradient >= gradientThreshold
SteepEnough(averageGradient) ==
    RatGe(averageGradient, FromInt(gradientThreshold))

\* variant: the early break taken at a drop of 10 m as well (<= in place of <)
RECURSIVE FindPeakStopAtTen(_, _, _, _)
FindPeakStopAtTen(sp, j, limit, peak) ==
    IF j >= limit THEN peak
    ELSE IF At(sp, j).elevation > peak.elevation
         THEN FindPeakStopAtTen(sp, j + 1, limit, At(sp, j))
    ELSE IF At(sp, j).elevation <= peak.elevation - peakDrop * ElevPerM
         THEN peak
    ELSE FindPeakStopAtTen(sp, j + 1, limit, peak)

\* the peak loop: j from i while j < limit, with its early break
RECURSIVE FindPeak(_, _, _, _)
FindPeak(sp, j, limit, peak) ==
    IF j >= limit THEN peak
    ELSE IF At(sp, j).elevation > peak.elevation
         THEN FindPeak(sp, j + 1, limit, At(sp, j))
    ELSE IF At(sp, j).elevation < peak.elevation - peakDrop * ElevPerM
         THEN peak
    ELSE FindPeak(sp, j + 1, limit, peak)

\* variant: the peak loop runs to the end of the track
WholeTrack(a, b) == b

Min(a, b) == IF a < b THEN a ELSE b

\* variant: the elevation gain measured up to the refined peak
ClimbSegmentGainToPeak(start, startElevation, end, endElevation, peak) ==
    LET climbLength == end - start
        elevationGain == peak.elevation - startElevation
        averageGradient == Percent(elevationGain, climbLength)
        sc == RatMul(Km(climbLength), RatMul(averageGradient, averageGradient))
    IN  [startDistance |-> start,
         endDistance |-> end,
         startElevation |-> startElevation,
         endElevation |-> endElevation,
         length |-> climbLength,
         elevationGain |-> elevationGain,
         averageGradient |-> averageGradient,
         score |-> sc,
         category |-> categorizeClimb(sc),
         peakDistance |-> peak.distance,
         peakElevation |-> peak.elevation,
         name |-> generateClimbName(peak.elevation, climbLength, averageGradient)]

\* the record pushed for a window that passed the gates
ClimbSegment(start, startElevation, end, endElevation, peak) ==
    LET climbLength == end - start
        elevationGain == endElevation - startElevation
        averageGradient == Percent(elevationGain, climbLength)
        sc == RatMul(Km(climbLength), RatMul(averageGradient, averageGradient))
    IN  [startDistance |-> start,
         endDistance |-> end,
         startElevation |-> startElevation,
         endElevation |-> endElevation,
         length |-> climbLength,
         elevationGain |-> elevationGain,
         averageGradient |-> averageGradient,
         score |-> sc,
         category |-> categorizeClimb(sc),
         peakDistance |-> peak.distance,
         peakElevation |-> peak.elevation,
         name |-> generateClimbName(peak.elevation, climbLength, averageGradient)]

\* variant: the pushed segment ends at the refined peak
ClosedWindowToPeak(sp, k, start, startElevation) ==
    LET point == At(sp, k)
        climbLength == point.distance - start
        elevationGain == point.elevation - startElevation
        peak == FindPeak(sp, k, Min(k + peakLookAhead, Len(sp)), point)
    IN  IF Qualifies(climbLength, elevationGain)
           /\ SteepEnough(Percent(elevationGain, climbLength))
        THEN <<ClimbSegment(start, startElevation, peak.distance, peak.elevation, peak)>>
        ELSE <<>>

\* the segments the window closed at index k adds to climbs: one or none
ClosedWindow(sp, k, start, startElevation) ==
    LET point == At(sp, k)
        climbEnd == point.distance
        climbEndElevation == point.elevation
        climbLength == climbEnd - start
        elevationGain == climbEndElevation - startElevation
    IN  IF Qualifies(climbLength, elevationGain)
           /\ SteepEnough(Percent(elevationGain, climbLength))
        THEN <<ClimbSegment(start, startElevation, climbEnd, climbEndElevation,
                            FindPeak(sp, k, Min(k + peakLookAhead, Len(sp)), point))>>
        ELSE <<>>

(***************************************************************************)
(* mergeNearbyClimbs, the body of its loop.                                *)
(***************************************************************************)
\* variant: the distance is taken from the start of the last kept climb
TooCloseFromStart(currentClimb, lastClimb) ==
    RatLt(Km(currentClimb.startDistance - lastClimb.startDistance),
          FromInt(minDistanceBetweenClimbs))

\* variant: 1 km in place of minDistanceBetweenClimbs
TooCloseOneKm(currentClimb, lastClimb) ==
    RatLt(Km(currentClimb.startDistance - lastClimb.endDistance), FromInt(1))

\* distanceBetween < minDistanceBetweenClimbs
TooClose(currentClimb, lastClimb) ==
    RatLt(Km(currentClimb.startDistance - lastClimb.endDistance),
          FromInt(minDistanceBetweenClimbs))

\* variant: >= in place of >
BetterOrEqual(currentClimb, lastClimb) ==
    RatGe(currentClimb.score, lastClimb.score)

\* variant: < in place of >
Worse(currentClimb, lastClimb) == RatLt(currentClimb.score, lastClimb.score)

\* currentClimb.score > lastClimb.score
Better(currentClimb, lastClimb) == RatGt(currentClimb.score, lastClimb.score)

\* variant: unshift in place of push
MergeIterationUnshift(m, currentClimb) ==
    IF Len(m) > 0 /\ RatLt(Km(currentClimb.startDistance - m[Len(m)].endDistance),
                           FromInt(minDistanceBetweenClimbs))
    THEN IF RatGt(currentClimb.score, m[Len(m)].score)
         THEN [m EXCEPT ![Len(m)] = currentClimb]
         ELSE m
    ELSE <<currentClimb>> \o m

\* variant: shouldMerge is set only when the current climb is not better
MergeIterationKeepsBoth(m, currentClimb) ==
    IF Len(m) > 0 /\ RatLt(Km(currentClimb.startDistance - m[Len(m)].endDistance),
                           FromInt(minDistanceBetweenClimbs))
    THEN IF RatGt(currentClimb.score, m[Len(m)].score)
         THEN Append([m EXCEPT ![Len(m)] = currentClimb], currentClimb)
         ELSE m
    ELSE Append(m, currentClimb)

\* variant: a better current climb is joined to the last one, keeping its start
MergeIterationJoins(m, currentClimb) ==
    IF Len(m) > 0 /\ RatLt(Km(currentClimb.startDistance - m[Len(m)].endDistance),
                           FromInt(minDistanceBetweenClimbs))
    THEN IF RatGt(currentClimb.score, m[Len(m)].score)
         THEN [m EXCEPT ![Len(m)] =
                  [currentClimb EXCEPT !.startDistance = m[Len(m)].startDistance]]
         ELSE m
    ELSE Append(m, currentClimb)

MergeIteration(m, currentClimb) ==
    IF Len(m) > 0 /\ TooClose(currentClimb, m[Len(m)])
    THEN IF Better(currentClimb, m[Len(m)])
         THEN [m EXCEPT ![Len(m)] = currentClimb]
         ELSE m
    ELSE Append(m, currentClimb)

RECURSIVE MergeLoop(_, _, _)
MergeLoop(cs, k, m) ==
    IF k >= Len(cs) THEN m ELSE MergeLoop(cs, k + 1, MergeIteration(m, At(cs, k)))

mergeNearbyClimbs(cs) == IF Len(cs) <= 1 THEN cs ELSE MergeLoop(cs, 0, <<>>)

(***************************************************************************)
(* Inputs.  A track starts at distance 0, elevation 0 and continues by     *)
(* steps of Steps: a quarter kilometre up 40 m, a flat half kilometre, or  *)
(* two kilometres down 280 m.  Distances never decrease and elevations     *)
(* are whole metres.                                                       *)
(***************************************************************************)
MaxLen == 10

Steps == { [dd |-> 25, de |-> 40], [dd |-> 50, de |-> 0], [dd |-> 200, de |-> -280] }

Extend(track, step) ==
    Append(track, [distance |-> track[Len(track)].distance + step.dd,
                   elevation |-> track[Len(track)].elevation + step.de * ElevPerM])

\* the track of Len(steps) + 1 samples that takes the steps in order
RECURSIVE Walk(_, _)
Walk(steps, k) ==
    IF k = 0 THEN << [distance |-> 0, elevation |-> 0] >>
    ELSE Extend(Walk(steps, k - 1), steps[k])

\* every track of n samples
TracksOfLength(n) ==
    IF n = 0 THEN { <<>> }
    ELSE { Walk(steps, n - 1) : steps \in [1..(n - 1) -> Steps] }

Pending == "pending"

(***************************************************************************)
(* detectClimbs                                                            *)
(***************************************************************************)
\* nothing has run yet
Fresh(points, candidates, s) ==
    /\ elevationPoints = points
    /\ smoothedPoints = <<>>
    /\ i = 0
    /\ isClimbing = FALSE
    /\ climbStart = <<>>
    /\ climbStartElevation = <<>>
    /\ currentElevation = 0
    /\ climbs = candidates
    /\ mi = 0
    /\ merged = <<>>
    /\ result = Pending
    /\ score = s
    /\ category = Pending

Init ==
    /\ pc = "call"
    /\ Mounted
    /\ \E n \in 0..MaxLen :
          \E points \in TracksOfLength(n) : Fresh(points, <<>>, FromInt(0))

\* variant: the smoother's length check in place of detectClimbs' own
TooFewSamplesToSmooth(points) == Len(points) < minSmoothLength

\* elevationPoints.length < 10
TooFewSamples(points) == Len(points) < minSamples

\* variant: the candidate list declared outside the function, not emptied per call
SharedClimbs(previous) == previous

\* const climbs: ClimbSegment[] = []
EmptyClimbs(previous) == <<>>

\* variant: const smoothed = points, the smoother writes into its argument
PointsSmoothedInPlace(points) == smoothElevationForClimbDetection(points)

\* the caller's array after smoothing: smoothed is a copy ([...points]) and
\* each smoothed sample a new object, so nothing is written into points
PointsAfterSmoothing(points) == points

\* entry: the length check, the locals, the smoothing
DetectCall ==
    /\ pc = "call"
    /\ IF TooFewSamples(elevationPoints)
       THEN /\ result' = <<>>
            /\ pc' = "done"
            /\ UNCHANGED <<elevationPoints, smoothedPoints, i, currentElevation,
                           isClimbing, climbStart, climbStartElevation, climbs>>
       ELSE /\ climbs' = EmptyClimbs(climbs)
            /\ climbStart' = <<>>
            /\ climbStartElevation' = <<>>
            /\ currentElevation' = At(elevationPoints, 0).elevation
            /\ isClimbing' = FALSE
            /\ smoothedPoints' = smoothElevationForClimbDetection(elevationPoints)
            /\ elevationPoints' = PointsAfterSmoothing(elevationPoints)
            /\ i' = 1
            /\ pc' = "scan"
            /\ UNCHANGED result
    /\ UNCHANGED <<mi, merged, score, category>>
    /\ UNCHANGED uiVars

\* one iteration of the scan
ScanStep ==
    /\ pc = "scan"
    /\ i < Len(smoothedPoints)
    /\ LET point == At(smoothedPoints, i)
           prevPoint == At(smoothedPoints, i - 1)
           elevationChange == point.elevation - prevPoint.elevation
           distance == point.distance - prevPoint.distance
           gradient == Gradient(elevationChange, distance)
       IN  IF StartsClimb(isClimbing, gradient)
           THEN /\ climbStart' = <<prevPoint.distance>>
                /\ climbStartElevation' = <<prevPoint.elevation>>
                /\ isClimbing' = TRUE
                /\ UNCHANGED climbs
           ELSE IF EndsClimb(isClimbing, gradient, i, Len(smoothedPoints))
           THEN /\ climbs' = IF climbStart # <<>> /\ climbStartElevation # <<>>
                             THEN climbs \o ClosedWindow(smoothedPoints, i, climbStart[1],
                                                         climbStartElevation[1])
                             ELSE climbs
                /\ isClimbing' = FALSE
                /\ climbStart' = <<>>
                /\ climbStartElevation' = <<>>
           ELSE UNCHANGED <<climbStart, climbStartElevation, isClimbing, climbs>>
    /\ currentElevation' = At(smoothedPoints, i).elevation
    /\ i' = i + 1
    /\ UNCHANGED <<pc, elevationPoints, smoothedPoints, mi, merged, result, score,
                   category>>
    /\ UNCHANGED uiVars

\* the scan is over: return mergeNearbyClimbs(climbs)
ScanExit ==
    /\ pc = "scan"
    /\ i >= Len(smoothedPoints)
    /\ pc' = "mergeCall"
    /\ UNCHANGED <<elevationPoints, smoothedPoints, i, isClimbing, climbStart,
                   climbStartElevation, currentElevation, climbs, mi, merged, result,
                   score, category>>
    /\ UNCHANGED uiVars

(***************************************************************************)
(* mergeNearbyClimbs                                                       *)
(***************************************************************************)
MergeCall ==
    /\ pc = "mergeCall"
    /\ IF Len(climbs) <= 1
       THEN /\ result' = climbs
            /\ pc' = "done"
            /\ UNCHANGED <<merged, mi>>
       ELSE /\ merged' = <<>>
            /\ mi' = 0
            /\ pc' = "merge"
            /\ UNCHANGED result
    /\ UNCHANGED <<elevationPoints, smoothedPoints, i, isClimbing, climbStart,
                   climbStartElevation, currentElevation, climbs, score, category>>
    /\ UNCHANGED uiVars

MergeStep ==
    /\ pc = "merge"
    /\ mi < Len(climbs)
    /\ merged' = MergeIteration(merged, At(climbs, mi))
    /\ mi' = mi + 1
    /\ UNCHANGED <<pc, elevationPoints, smoothedPoints, i, isClimbing, climbStart,
                   climbStartElevation, currentElevation, climbs, result, score,
                   category>>
    /\ UNCHANGED uiVars

MergeReturn ==
    /\ pc = "merge"
    /\ mi >= Len(climbs)
    /\ result' = merged
    /\ pc' = "done"
    /\ UNCHANGED <<elevationPoints, smoothedPoints, i, isClimbing, climbStart,
                   climbStartElevation, currentElevation, climbs, mi, merged, score,
                   category>>
    /\ UNCHANGED uiVars

Next == DetectCall \/ ScanStep \/ ScanExit \/ MergeCall \/ MergeStep \/ MergeReturn

Spec == Init /\ [][Next]_vars

(***************************************************************************)
(* mergeNearbyClimbs on its own: candidate lists sorted by startDistance.  *)
(* A candidate starts CandidateDeltas after the start of the one before    *)
(* it (0 or 2.5 km), is 0.5 or 1 km long and gains 30 or 60 m; candidates  *)
(* may overlap and may tie in score.                                       *)
(***************************************************************************)
MaxCandidates == 4

CandidateDeltas == {0, 250}
CandidateLengths == {50, 100}
CandidateGains == {30, 60}

Candidate(start, length, gain) ==
    ClimbSegment(start, 0, start + length, gain * ElevPerM,
                 [distance |-> start + length, elevation |-> gain * ElevPerM])

CandidateChoices ==
    [delta : CandidateDeltas, length : CandidateLengths, gain : CandidateGains]

\* the list whose k-th candidate is made from the k-th choice
RECURSIVE CandidateList(_, _)
CandidateList(choices, k) ==
    IF k = 0 THEN <<>>
    ELSE LET l == CandidateList(choices, k - 1)
             c == choices[k]
             before == IF l = <<>> THEN 0 ELSE l[Len(l)].startDistance
         IN  Append(l, Candidate(before + c.delta, c.length, c.gain))

CandidateListsOfLength(n) ==
    { CandidateList(choices, n) : choices \in [1..n -> CandidateChoices] }

InitMerge ==
    /\ pc = "mergeCall"
    /\ Mounted
    /\ \E n \in 0..MaxCandidates :
          \E cs \in CandidateListsOfLength(n) : Fresh(<<>>, cs, FromInt(0))

NextMerge == MergeCall \/ MergeStep \/ MergeReturn

SpecMerge == InitMerge /\ [][NextMerge]_vars

(***************************************************************************)
(* categorizeClimb on its own: scores in tenths from -1 to MaxScore.       *)
(***************************************************************************)
MaxScore == 601

ScoresUpTo(m) == { Rat(n, 10) : n \in -10..(10 * m) }

InitCategorize ==
    /\ pc = "categorize"
    /\ Mounted
    /\ \E s \in ScoresUpTo(MaxScore) : Fresh(<<>>, <<>>, s)

Categorize ==
    /\ pc = "categorize"
    /\ category' = categorizeClimb(score)
    /\ pc' = "done"
    /\ UNCHANGED <<elevationPoints, smoothedPoints, i, isClimbing, climbStart,
                   climbStartElevation, currentElevation, climbs, mi, merged, result,
                   score>>
    /\ UNCHANGED uiVars

NextCategorize == Categorize

SpecCategorize == InitCategorize /\ [][NextCategorize]_vars

(***************************************************************************)
(* detectClimbs on tracks with repeated distances: a track continues by a  *)
(* step of DegenerateSteps, one of which climbs 40 m over no distance.     *)
(***************************************************************************)
DegenerateSteps == { [dd |-> 0, de |-> 40], [dd |-> 25, de |-> 40], [dd |-> 50, de |-> 0] }

\* every track of n samples that continues by steps of the alphabet
TracksOver(alphabet, n) ==
    IF n = 0 THEN { <<>> }
    ELSE { Walk(steps, n - 1) : steps \in [1..(n - 1) -> alphabet] }

InitDegenerate ==
    /\ pc = "call"
    /\ Mounted
    /\ \E n \in minSamples..MaxLen :
          \E points \in TracksOver(DegenerateSteps, n) : Fresh(points, <<>>, FromInt(0))

SpecDegenerate == InitDegenerate /\ [][Next]_vars

(***************************************************************************)
(* detectClimbs on tracks made to a pattern.                               *)
(*                                                                         *)
(* A plateau track has LongLen samples a quarter kilometre apart: it       *)
(* rises 40 m in each of its first steps, then stays level but for one     *)
(* later step that rises by the height of a bump.                          *)
(***************************************************************************)
LongLen == 30

PlateauRises == 2..4
PlateauBumps == {35, 70}

PlateauTrack(rises, at, bump) ==
    Walk([k \in 1..(LongLen - 1) |->
            IF k <= rises THEN [dd |-> 25, de |-> 40]
            ELSE IF k = at THEN [dd |-> 25, de |-> bump]
            ELSE [dd |-> 25, de |-> 0]],
         LongLen - 1)

PlateauTracks ==
    { PlateauTrack(rises, at, bump) :
        rises \in PlateauRises, at \in 5..(LongLen - 1), bump \in PlateauBumps }

(***************************************************************************)
(* A ramp track climbs 400 m over 5 km at 8 percent throughout: n samples, *)
(* each a quarter kilometre (20 m) after the one before, but for one step  *)
(* that covers the rest of the 5 km; with MaxRampLen samples all steps     *)
(* are alike.                                                              *)
(***************************************************************************)
MaxRampLen == 21

RampTrack(n, at) ==
    Walk([k \in 1..(n - 1) |->
            LET dd == IF k = at THEN 5 * DistPerKm - 25 * (n - 2) ELSE 25
            IN  [dd |-> dd, de |-> (dd * 80) \div DistPerKm]],
         n - 1)

RampTracks ==
    UNION { { RampTrack(n, at) : at \in 1..(n - 1) } : n \in minSamples..MaxRampLen }

(***************************************************************************)
(* A noisy track follows a 10 percent grade over 2 km, its samples evenly  *)
(* spaced and alternately 5 m above and 5 m below the grade.               *)
(***************************************************************************)
NoisySpacings == {1, 2, 4, 5, 8, 10, 20}

NoisyTrack(spacing, first) ==
    [k \in 1..((2 * DistPerKm) \div spacing + 1) |->
        LET distance == (k - 1) * spacing
            grade == (distance * 100) \div DistPerKm
            noise == IF k % 2 = 1 THEN first ELSE -first
        IN  [distance |-> distance, elevation |-> (grade + noise) * ElevPerM]]

NoisyTracks == { NoisyTrack(spacing, first) : spacing \in NoisySpacings, first \in {-5, 5} }

(***************************************************************************)
(* A threshold track has minSamples samples and continues by a quarter     *)
(* kilometre up 40 m, one kilometre up 30 m (3 percent exactly) or a level *)
(* half kilometre.                                                         *)
(***************************************************************************)
ThresholdSteps == { [dd |-> 25, de |-> 40], [dd |-> 100, de |-> 30], [dd |-> 50, de |-> 0] }

ThresholdTracks == TracksOver(ThresholdSteps, minSamples)

(***************************************************************************)
(* A dip track has DipLen samples a quarter kilometre apart: it rises      *)
(* 40 m in each of its first steps and then stays level, but for one step  *)
(* down by the depth of a dip and the next step up 140 m.  Smoothed, a     *)
(* dip of 70 m is a sample 10 m below the level before it.                 *)
(***************************************************************************)
DipLen == 20

DipDepths == {70, 77}

DipTrack(rises, at, depth) ==
    Walk([k \in 1..(DipLen - 1) |->
            IF k <= rises THEN [dd |-> 25, de |-> 40]
            ELSE IF k = at THEN [dd |-> 25, de |-> -depth]
            ELSE IF k = at + 1 THEN [dd |-> 25, de |-> 140]
            ELSE [dd |-> 25, de |-> 0]],
         DipLen - 1)

DipTracks ==
    { DipTrack(rises, at, depth) :
        rises \in PlateauRises, at \in 5..(DipLen - 2), depth \in DipDepths }

InitScenario ==
    /\ pc = "call"
    /\ Mounted
    /\ \E points \in PlateauTracks \cup RampTracks \cup NoisyTracks
                        \cup ThresholdTracks \cup DipTracks :
          Fresh(points, <<>>, FromInt(0))

SpecScenario == InitScenario /\ [][Next]_vars

(***************************************************************************)
(* detectClimbs called again and again: when a call has returned the       *)
(* caller may call with another track, and whatever the call before left   *)
(* in the variables is still there when the new call begins.  A CallTrack  *)
(* rises 40 m per quarter kilometre, runs level by half kilometres, then   *)
(* rises again.                                                            *)
(***************************************************************************)
CallTrack(n, rises, level) ==
    Walk([k \in 1..(n - 1) |->
            IF k <= rises \/ k > rises + level THEN [dd |-> 25, de |-> 40]
            ELSE [dd |-> 50, de |-> 0]],
         n - 1)

CallTracks ==
    { CallTrack(minSamples, rises, level) :
        rises \in 0..(minSamples - 1), level \in 0..(minSamples - 1) }
    \cup { CallTrack(minSamples - 1, 0, 0) }

\* the loop of the scan from index k on, as a function of its locals
RECURSIVE ScanLoop(_, _, _, _, _, _)
ScanLoop(sp, k, climbing, start, startElevation, cs) ==
    IF k >= Len(sp) THEN cs
    ELSE LET point == At(sp, k)
             prevPoint == At(sp, k - 1)
             gradient == Gradient(point.elevation - prevPoint.elevation,
                                  point.distance - prevPoint.distance)
         IN  IF StartsClimb(climbing, gradient)
             THEN ScanLoop(sp, k + 1, TRUE, <<prevPoint.distance>>,
                           <<prevPoint.elevation>>, cs)
             ELSE IF EndsClimb(climbing, gradient, k, Len(sp))
             THEN ScanLoop(sp, k + 1, FALSE, <<>>, <<>>,
                           IF start # <<>> /\ startElevation # <<>>
                           THEN cs \o ClosedWindow(sp, k, start[1], startElevation[1])
                           ELSE cs)
             ELSE ScanLoop(sp, k + 1, climbing, start, startElevation, cs)

\* detectClimbs as a function of its argument
detectClimbs(points) ==
    IF TooFewSamples(points) THEN <<>>
    ELSE mergeNearbyClimbs(ScanLoop(smoothElevationForClimbDetection(points), 1,
                                    FALSE, <<>>, <<>>, <<>>))

InitCalls ==
    /\ pc = "call"
    /\ Mounted
    /\ \E points \in CallTracks : Fresh(points, <<>>, FromInt(0))

\* the caller calls detectClimbs again, with any track
Recall ==
    /\ pc = "done"
    /\ result # Pending
    /\ \E points \in CallTracks : elevationPoints' = points
    /\ pc' = "call"
    /\ result' = Pending
    /\ UNCHANGED <<smoothedPoints, i, isClimbing, climbStart, climbStartElevation,
                   currentElevation, climbs, mi, merged, score, category>>
    /\ UNCHANGED uiVars

NextCalls ==
    DetectCall \/ ScanStep \/ ScanExit \/ MergeCall \/ MergeStep \/ MergeReturn \/ Recall

SpecCalls == InitCalls /\ [][NextCalls]_vars

(***************************************************************************)
(* Segments with names: lists of one or two segments as the scan pushes    *)
(* them, of start elevations from below sea level to 1400 m, gains of     *)
(* 50 to 1650 m over 1, 10 or 11 km, the peak at the end or 50 m above it. *)
(***************************************************************************)
NamedStartElevations == {-750, 0, 900, 1400}
NamedGains == {50, 100, 150, 1650}
NamedLengths == {100, 1000, 1100}
NamedLifts == {0, 50}

NamedCandidate(c) ==
    ClimbSegment(0, c.startElevation * ElevPerM, c.length,
                 (c.startElevation + c.gain) * ElevPerM,
                 [distance |-> c.length,
                  elevation |-> (c.startElevation + c.gain + c.lift) * ElevPerM])

NamedChoices ==
    [startElevation : NamedStartElevations, gain : NamedGains,
     length : NamedLengths, lift : NamedLifts]

NamedListsOfLength(n) ==
    IF n = 1 THEN { <<NamedCandidate(a)>> : a \in NamedChoices }
    ELSE { <<NamedCandidate(a), NamedCandidate(b)>> : a, b \in NamedChoices }

InitName ==
    /\ pc = "mergeCall"
    /\ Mounted
    /\ \E n \in 1..2 :
          \E cs \in NamedListsOfLength(n) : Fresh(<<>>, cs, FromInt(0))

SpecName == InitName /\ [][NextMerge]_vars

(***************************************************************************)
(* The page (app/page) and the elevation profile it renders                *)
(* (components/elevation-profile).  A label name is a sequence of          *)
(* characters; a label's customX and customY are <<>> when undefined and   *)
(* <<pixels>> otherwise; a label's id is a number no other label has.      *)
(* Pixel positions are whole numbers: the tracks and pointer positions     *)
(* are chosen so that the scales divide exactly.                           *)
(***************************************************************************)
MaxLabels == 2

CanvasWidth == 800

labelWidth == 80
labelHeight == 40
extraTopPadding == 100
baseHeight == 400
minDistanceSpacing == 40

basePadding == [top |-> 60, right |-> 40, bottom |-> 80, left |-> 60]

Categories == {"HC", "1", "2", "3", "4"}

\* what can be typed into the label name field
Names == { <<>>, <<" ">>, <<"a">>, <<" ", "a">>, <<"a", " ">> }

\* String.prototype.trim: the name without its leading and trailing blanks
RECURSIVE TrimStart(_)
TrimStart(name) ==
    IF name # <<>> /\ Head(name) = " " THEN TrimStart(Tail(name)) ELSE name

RECURSIVE TrimEnd(_)
TrimEnd(name) ==
    IF name # <<>> /\ name[Len(name)] = " "
    THEN TrimEnd(SubSeq(name, 1, Len(name) - 1))
    ELSE name

trim(name) == TrimEnd(TrimStart(name))

\* an id no label of ls has
FreshId(ls) ==
    CHOOSE id \in 1..(Len(ls) + 1) :
        /\ \A n \in 1..Len(ls) : ls[n].id # id
        /\ \A smaller \in 1..(id - 1) : \E n \in 1..Len(ls) : ls[n].id = smaller

\* [...].sort((a, b) => a.distance - b.distance), a stable sort
RECURSIVE SortLabels(_)
SortLabels(ls) ==
    IF ls = <<>> THEN <<>>
    ELSE LET last == ls[Len(ls)]
             sorted == SortLabels(SubSeq(ls, 1, Len(ls) - 1))
         IN  SelectSeq(sorted, LAMBDA l : l.distance <= last.distance)
                 \o <<last>>
                 \o SelectSeq(sorted, LAMBDA l : l.distance > last.distance)

\* the labels the page generates from the detected climbs: one for every
\* climb of category HC, 1, 2 or 3, placed at the climb's peak
autoLabels(detected) ==
    LET significant == SelectSeq(detected, LAMBDA climb : climb.category \in {"HC", "1", "2", "3"})
    IN  [n \in 1..Len(significant) |->
            [id |-> n,
             distance |-> significant[n].peakDistance,
             elevation |-> significant[n].peakElevation,
             name |-> significant[n].name,
             category |-> significant[n].category,
             customX |-> <<>>,
             customY |-> <<>>]]

\* the tracks of the files that are loaded
PageSteps ==
    { <<[dd |-> 25, de |-> 40], [dd |-> 25, de |-> 40], [dd |-> 50, de |-> 0],
        [dd |-> 100, de |-> 30], [dd |-> 100, de |-> 30], [dd |-> 100, de |-> 30],
        [dd |-> 50, de |-> 0], [dd |-> 25, de |-> 40], [dd |-> 25, de |-> 40]>>,
      <<[dd |-> 50, de |-> 0], [dd |-> 50, de |-> 0], [dd |-> 50, de |-> 0],
        [dd |-> 50, de |-> 0], [dd |-> 50, de |-> 0], [dd |-> 50, de |-> 0],
        [dd |-> 50, de |-> 0], [dd |-> 50, de |-> 0], [dd |-> 50, de |-> 0],
        [dd |-> 50, de |-> 0]>> }

PageTracks == { Walk(steps, Len(steps)) : steps \in PageSteps }

\* the GPXData of a track
Parsed(points) ==
    [elevationPoints |-> points, totalDistance |-> points[Len(points)].distance]

\* where the pointer can be, in pixels from the canvas' left and top edges
PointerXs == {30, 410, 760}
PointerYs == {135, 300}

\* the category buttons that are pressed
PressedCategories == {"HC"}

Max(a, b) == IF a > b THEN a ELSE b

\* the padding of the mouse handlers: basePadding with extraTopPadding on top
padding ==
    [top |-> basePadding.top + extraTopPadding, right |-> basePadding.right,
     bottom |-> basePadding.bottom, left |-> basePadding.left]

chartWidth == CanvasWidth - padding.left - padding.right

chartHeight == baseHeight - basePadding.top - basePadding.bottom

xScale(distance) ==
    padding.left + (distance * chartWidth) \div gpxData[1].totalDistance

\* the effect's bottomDisplacements: the displacement of the k-th of the
\* sorted labels, 15 more than that of any earlier label closer than
\* minDistanceSpacing on a scale of 800
RECURSIVE Displacement(_, _)
Displacement(sorted, k) ==
    LET near == { j \in 1..(k - 1) :
                    Abs(sorted[k].distance - sorted[j].distance) * 800
                        < minDistanceSpacing * gpxData[1].totalDistance }
        RECURSIVE Highest(_)
        Highest(S) ==
            IF S = {} THEN 0
            ELSE LET j == CHOOSE j \in S : TRUE
                 IN  Max(Displacement(sorted, j) + 15, Highest(S \ {j}))
    IN  Highest(near)

RECURSIVE MaxDisplacement(_, _)
MaxDisplacement(sorted, k) ==
    IF k = 0 THEN 0 ELSE Max(Displacement(sorted, k), MaxDisplacement(sorted, k - 1))

\* the height the effect gives the canvas: dynamicHeight
canvasHeight ==
    LET sortedLabels == SortLabels(labels)
        maxBottomDisplacement == MaxDisplacement(sortedLabels, Len(sortedLabels))
        extraBottomPadding == Max(0, maxBottomDisplacement + 10)
    IN  baseHeight + extraTopPadding + extraBottomPadding

labelX(label) == IF label.customX # <<>> THEN label.customX[1] ELSE xScale(label.distance)

labelY(label) == IF label.customY # <<>> THEN label.customY[1] ELSE padding.top - 25

\* the mouse is within the label's bounds
OverLabel(mouseX, mouseY, label) ==
    /\ 2 * mouseX >= 2 * labelX(label) - labelWidth
    /\ 2 * mouseX <= 2 * labelX(label) + labelWidth
    /\ 2 * mouseY >= 2 * labelY(label) - labelHeight
    /\ 2 * mouseY <= 2 * labelY(label) + labelHeight

\* handleLabelUpdate: the label of that id takes the updates
handleLabelUpdate(labelId, x, y) ==
    [n \in 1..Len(labels) |->
        IF labels[n].id = labelId
        THEN [labels[n] EXCEPT !.customX = <<x>>, !.customY = <<y>>]
        ELSE labels[n]]

\* the gpx point closest to the distance, the first of them on a tie
RECURSIVE Closest(_, _, _, _)
Closest(points, k, distance, closestPoint) ==
    IF k > Len(points) THEN closestPoint
    ELSE IF Abs(points[k].distance - distance) < Abs(closestPoint.distance - distance)
         THEN Closest(points, k + 1, distance, points[k])
         ELSE Closest(points, k + 1, distance, closestPoint)

\* handleProfileClick returns at once
ProfileClickIgnored == ~isAddingLabel \/ trim(newLabelName) = <<>>

\* the labels once handleProfileClick has run
LabelsAfterClick(distance, elevation) ==
    IF ProfileClickIgnored THEN labels
    ELSE SortLabels(Append(labels,
             [id |-> FreshId(labels), distance |-> distance, elevation |-> elevation,
              name |-> trim(newLabelName), category |-> selectedCategory,
              customX |-> <<>>, customY |-> <<>>]))

handleProfileClick(distance, elevation) ==
    /\ labels' = LabelsAfterClick(distance, elevation)
    /\ IF ProfileClickIgnored
       THEN UNCHANGED <<newLabelName, selectedCategory, isAddingLabel>>
       ELSE /\ newLabelName' = <<>>
            /\ selectedCategory' = NULL
            /\ isAddingLabel' = FALSE

\* the click is outside the chart area
OutsideChart(x, y) ==
    \/ x < padding.left
    \/ x > CanvasWidth - padding.right
    \/ y < padding.top
    \/ y > padding.top + chartHeight

\* handleCanvasClick, dragging being dragState.isDragging as the handler sees it
handleCanvasClick(x, y, dragging) ==
    IF ~isAddingLabel \/ dragging \/ OutsideChart(x, y)
    THEN UNCHANGED <<labels, newLabelName, selectedCategory, isAddingLabel>>
    ELSE LET points == gpxData[1].elevationPoints
             distance == ((x - padding.left) * gpxData[1].totalDistance) \div chartWidth
             closestPoint == Closest(points, 1, distance, points[1])
         IN  handleProfileClick(closestPoint.distance, closestPoint.elevation)

\* the toggle button is disabled
ToggleDisabled == trim(newLabelName) = <<>>

\* a climb of the list is shown as already added
isAlreadyAdded(climb) ==
    \E n \in 1..Len(labels) :
        Abs(labels[n].distance - climb.peakDistance) * 10 < DistPerKm

InitPage ==
    /\ pc = "page"
    /\ Mounted
    /\ Fresh(<<>>, <<>>, FromInt(0))

\* a file is chosen: handleFileUpload
FileUpload ==
    /\ pc = "page"
    /\ \E points \in PageTracks :
          LET climbs_ == detectClimbs(points)
          IN  /\ gpxData' = <<Parsed(points)>>
              /\ detectedClimbs' = climbs_
              /\ labels' = autoLabels(climbs_)
    /\ UNCHANGED <<isAddingLabel, newLabelName, selectedCategory, dragState,
                   buttonDown, pressedInside, pointerInside>>
    /\ UNCHANGED callVars

\* the label name field changes
ChangeName ==
    /\ pc = "page"
    /\ gpxData # <<>>
    /\ \E name \in Names : newLabelName' = name
    /\ UNCHANGED <<gpxData, detectedClimbs, labels, isAddingLabel, selectedCategory,
                   dragState, buttonDown, pressedInside, pointerInside>>
    /\ UNCHANGED callVars

\* a category button is pressed
SelectCategory ==
    /\ pc = "page"
    /\ gpxData # <<>>
    /\ \E cat \in PressedCategories :
          selectedCategory' = IF selectedCategory = cat THEN NULL ELSE cat
    /\ UNCHANGED <<gpxData, detectedClimbs, labels, isAddingLabel, newLabelName,
                   dragState, buttonDown, pressedInside, pointerInside>>
    /\ UNCHANGED callVars

\* the toggle button is pressed
ToggleAdding ==
    /\ pc = "page"
    /\ gpxData # <<>>
    /\ ~ToggleDisabled
    /\ isAddingLabel' = ~isAddingLabel
    /\ UNCHANGED <<gpxData, detectedClimbs, labels, newLabelName, selectedCategory,
                   dragState, buttonDown, pressedInside, pointerInside>>
    /\ UNCHANGED callVars

\* the Add button of a detected climb is pressed: addClimbLabel
AddClimbLabel ==
    /\ pc = "page"
    /\ Len(labels) < MaxLabels
    /\ \E n \in 1..Len(detectedClimbs) :
          LET climb == detectedClimbs[n]
          IN  /\ ~isAlreadyAdded(climb)
              /\ labels' = SortLabels(Append(labels,
                     [id |-> FreshId(labels), distance |-> climb.peakDistance,
                      elevation |-> climb.peakElevation, name |-> climb.name,
                      category |-> climb.category, customX |-> <<>>, customY |-> <<>>]))
    /\ UNCHANGED <<gpxData, detectedClimbs, isAddingLabel, newLabelName,
                   selectedCategory, dragState, buttonDown, pressedInside, pointerInside>>
    /\ UNCHANGED callVars

\* the remove button of a label is pressed: removeLabel
RemoveLabel ==
    /\ pc = "page"
    /\ \E n \in 1..Len(labels) :
          labels' = SelectSeq(labels, LAMBDA label : label.id # labels[n].id)
    /\ UNCHANGED <<gpxData, detectedClimbs, isAddingLabel, newLabelName,
                   selectedCategory, dragState, buttonDown, pressedInside, pointerInside>>
    /\ UNCHANGED callVars

\* the pointer crosses the edge of the canvas, which has no handler for it
PointerCrosses ==
    /\ pc = "page"
    /\ gpxData # <<>>
    /\ pointerInside' = ~pointerInside
    /\ UNCHANGED <<gpxData, detectedClimbs, labels, isAddingLabel, newLabelName,
                   selectedCategory, dragState, buttonDown, pressedInside>>
    /\ UNCHANGED callVars

\* the button goes down; over the canvas handleMouseDown runs
MouseDown ==
    /\ pc = "page"
    /\ gpxData # <<>>
    /\ ~buttonDown
    /\ buttonDown' = TRUE
    /\ pressedInside' = pointerInside
    /\ \E mouseX \in PointerXs, mouseY \in PointerYs :
          LET over == { n \in 1..Len(labels) : OverLabel(mouseX, mouseY, labels[n]) }
              first == CHOOSE n \in over : \A m \in over : n <= m
          IN  IF ~pointerInside \/ isAddingLabel \/ over = {}
              THEN UNCHANGED dragState
              ELSE dragState' =
                      [isDragging |-> TRUE, labelId |-> <<labels[first].id>>,
                       startX |-> mouseX, startY |-> mouseY,
                       initialCustomX |-> labelX(labels[first]),
                       initialCustomY |-> labelY(labels[first])]
    /\ UNCHANGED <<gpxData, detectedClimbs, labels, isAddingLabel, newLabelName,
                   selectedCategory, pointerInside>>
    /\ UNCHANGED callVars

\* the pointer moves over the canvas: handleMouseMove
MouseMove ==
    /\ pc = "page"
    /\ gpxData # <<>>
    /\ pointerInside
    /\ \E mouseX \in PointerXs, mouseY \in PointerYs :
          IF ~dragState.isDragging \/ dragState.labelId = <<>>
          THEN UNCHANGED labels
          ELSE LET newX == dragState.initialCustomX + (mouseX - dragState.startX)
                   newY == dragState.initialCustomY + (mouseY - dragState.startY)
                   constrainedX == Max(50, Min(CanvasWidth - 50, newX))
                   constrainedY == Max(20, Min(canvasHeight - 100, newY))
               IN  labels' = handleLabelUpdate(dragState.labelId[1], constrainedX,
                                               constrainedY)
    /\ UNCHANGED <<gpxData, detectedClimbs, isAddingLabel, newLabelName,
                   selectedCategory, dragState, buttonDown, pressedInside, pointerInside>>
    /\ UNCHANGED callVars

\* the button goes up; over the canvas handleMouseUp runs, and the click that
\* follows a press made over the canvas runs handleCanvasClick
MouseUp ==
    /\ pc = "page"
    /\ gpxData # <<>>
    /\ buttonDown
    /\ Len(labels) < MaxLabels \/ ProfileClickIgnored
    /\ buttonDown' = FALSE
    /\ IF pointerInside
       THEN /\ dragState' = NoDrag
            /\ IF pressedInside
               THEN \E x \in PointerXs, y \in PointerYs : handleCanvasClick(x, y, FALSE)
               ELSE UNCHANGED <<labels, newLabelName, selectedCategory, isAddingLabel>>
       ELSE UNCHANGED <<dragState, labels, newLabelName, selectedCategory, isAddingLabel>>
    /\ UNCHANGED <<gpxData, detectedClimbs, pressedInside, pointerInside>>
    /\ UNCHANGED callVars

\* the button is pressed and released over the canvas without the pointer
\* moving: mouse down, mouse up and the click that follows
Click ==
    /\ pc = "page"
    /\ gpxData # <<>>
    /\ ~buttonDown
    /\ Len(labels) < MaxLabels \/ ProfileClickIgnored
    /\ dragState' = NoDrag
    /\ \E x \in PointerXs, y \in PointerYs : handleCanvasClick(x, y, FALSE)
    /\ UNCHANGED <<gpxData, detectedClimbs, buttonDown, pressedInside, pointerInside>>
    /\ UNCHANGED callVars

NextPage ==
    \/ FileUpload
    \/ ChangeName
    \/ SelectCategory
    \/ ToggleAdding
    \/ AddClimbLabel
    \/ RemoveLabel
    \/ Click

SpecPage == InitPage /\ [][NextPage]_vars

\* the profile as it stands once a file is loaded, in add-label mode or not
InitDrag ==
    /\ pc = "page"
    /\ Fresh(<<>>, <<>>, FromInt(0))
    /\ \E points \in PageTracks :
          LET climbs_ == detectClimbs(points)
          IN  /\ gpxData = <<Parsed(points)>>
              /\ detectedClimbs = climbs_
              /\ labels = autoLabels(climbs_)
    /\ \E adding \in BOOLEAN :
          /\ isAddingLabel = adding
          /\ newLabelName = IF adding THEN <<"a">> ELSE <<>>
    /\ selectedCategory = NULL
    /\ dragState = NoDrag
    /\ buttonDown = FALSE
    /\ pressedInside = FALSE
    /\ pointerInside = FALSE

NextDrag == PointerCrosses \/ MouseDown \/ MouseMove \/ MouseUp

SpecDrag == InitDrag /\ [][NextDrag]_vars

(***************************************************************************)
(* Properties.                                                             *)
(***************************************************************************)
Returned == pc = "done" /\ result # Pending

LastDistance(points) == points[Len(points)].distance

\* C1: every segment detectClimbs returns has length >= 0.5 km, elevationGain
\* >= 30 m and averageGradient >= 3 percent, for a window closed by a falling
\* gradient as for one closed by force at the last sample.
C1_GatesHold ==
    Returned =>
        \A k \in 1..Len(result) :
            /\ 2 * result[k].length >= DistPerKm
            /\ result[k].elevationGain >= minElevationGain * ElevPerM
            /\ result[k].averageGradient.num
                   >= gradientThreshold * result[k].averageGradient.den

\* a call that returned two segments, the first closed inside the track and
\* the second closed by force at the last sample
C1_Witness ==
    /\ Returned
    /\ Len(result) = 2
    /\ result[1].endDistance < LastDistance(elevationPoints)
    /\ result[2].endDistance = LastDistance(elevationPoints)

\* C2: in the list mergeNearbyClimbs returns for candidates sorted by
\* startDistance, each kept segment starts at least 2 km after the end of the
\* kept segment before it, also when it took its place by replacing a segment.
C2_MinGap ==
    Returned =>
        \A k \in 1..(Len(result) - 1) :
            result[k + 1].startDistance - result[k].endDistance
                >= minDistanceBetweenClimbs * DistPerKm

\* three candidates, the third of which replaced the second behind a kept first
C2_Witness ==
    /\ Returned
    /\ Len(climbs) = 3
    /\ climbs[2] # climbs[3]
    /\ result = << climbs[1], climbs[3] >>

\* C3: the segments detectClimbs returns are strictly ordered by startDistance.
C3_StrictOrder ==
    Returned =>
        \A k \in 1..(Len(result) - 1) :
            result[k].startDistance < result[k + 1].startDistance

\* a call on a track that returned two segments after dropping a candidate
C3_Witness ==
    /\ Returned
    /\ Len(elevationPoints) >= minSamples
    /\ Len(climbs) = 3
    /\ Len(result) = 2

\* C4: mergeNearbyClimbs applied to the list it returned gives that list.
C4_Idempotent == Returned => mergeNearbyClimbs(result) = result

\* a merge that dropped and replaced candidates and kept two
C4_Witness ==
    /\ Returned
    /\ Len(climbs) = 4
    /\ result = << climbs[2], climbs[4] >>

\* the greedy reduction as the specification words it
RECURSIVE GreedyReduce(_, _)
GreedyReduce(candidates, kept) ==
    IF candidates = <<>> THEN kept
    ELSE LET c == Head(candidates)
             rest == Tail(candidates)
         IN  IF kept = <<>>
                \/ c.startDistance - kept[Len(kept)].endDistance >= 2 * DistPerKm
             THEN GreedyReduce(rest, Append(kept, c))
             ELSE IF RatLt(kept[Len(kept)].score, c.score)
             THEN GreedyReduce(rest, SubSeq(kept, 1, Len(kept) - 1) \o <<c>>)
             ELSE GreedyReduce(rest, kept)

\* C5: mergeNearbyClimbs returns what the greedy single-lookback reduction
\* returns (append when the accumulator is empty or the gap to the last kept
\* segment is >= 2 km, else replace the last kept segment when the candidate's
\* score is strictly greater, else drop it), and no step of it changes a kept
\* segment other than the last one.
C5_Greedy ==
    /\ [](Returned => result = GreedyReduce(climbs, <<>>))
    /\ [][pc = "merge" /\ pc' = "merge" =>
            /\ Len(merged') >= Len(merged)
            /\ \A k \in 1..(Len(merged) - 1) : merged'[k] = merged[k]]_vars

\* two candidates tie in score and collide: the earlier one is kept
C5_Witness ==
    /\ Returned
    /\ Len(climbs) = 3
    /\ climbs[1].score = climbs[2].score
    /\ climbs[1] # climbs[2]
    /\ Len(result) = 2
    /\ result[1] = climbs[1]

\* every input pair between two distances is flat or descends
FlatBetween(points, from, to) ==
    \A k \in 2..Len(points) :
        (points[k - 1].distance >= from /\ points[k].distance <= to)
            => points[k].elevation <= points[k - 1].elevation

\* the scan found two climbs with at most 1.5 km of flat or descending track
\* between the end of the first and the start of the second
TwoClimbsNearby ==
    /\ Returned
    /\ Len(elevationPoints) >= minSamples
    /\ Len(climbs) = 2
    /\ 2 * (climbs[2].startDistance - climbs[1].endDistance) <= 3 * DistPerKm
    /\ FlatBetween(elevationPoints, climbs[1].endDistance, climbs[2].startDistance)

CategoryOfTenths(t) ==
    IF t >= 6000 THEN "HC"
    ELSE IF t >= 3000 THEN "1"
    ELSE IF t >= 1500 THEN "2"
    ELSE IF t >= 750 THEN "3"
    ELSE IF t > 0 THEN "4"
    ELSE NULL

\* C7: categorizeClimb maps every score by the fixed breakpoints: >= 600 HC,
\* >= 300 1, >= 150 2, >= 75 3, > 0 4, otherwise none.
C7_Breakpoints ==
    (pc = "done" /\ category # Pending) =>
        category = CategoryOfTenths(score.num * (10 \div score.den))

\* the score 299.9 was categorized 2
C7_Witness ==
    /\ pc = "done"
    /\ score = Rat(2999, 10)
    /\ category = "2"

\* C8: every segment detectClimbs returns has a score > 0 and a category among
\* HC, 1, 2, 3, 4.
C8_Categorized ==
    Returned =>
        \A k \in 1..Len(result) :
            /\ result[k].score.num > 0
            /\ result[k].category \in { "HC", "1", "2", "3", "4" }

\* a call that returned a segment of category 4
C8_Witness ==
    /\ Returned
    /\ Len(elevationPoints) >= minSamples
    /\ \E k \in 1..Len(result) : result[k].category = "4"

\* some pair of consecutive samples rises
Rises(points) ==
    \E k \in 2..Len(points) : points[k].elevation > points[k - 1].elevation

\* C9: detectClimbs on fewer than 10 samples returns the empty list.
C9_TooFew ==
    (Returned /\ Len(elevationPoints) < minSamples) => result = <<>>

\* a call on nine samples, some of them rising, that returned
C9_Witness ==
    /\ Returned
    /\ Len(elevationPoints) = minSamples - 1
    /\ Rises(elevationPoints)
    /\ result = <<>>

\* no pair of consecutive input samples has a gradient above the threshold
NoSteepPair(points) ==
    \A k \in 2..Len(points) :
        ~RatGt(Gradient(points[k].elevation - points[k - 1].elevation,
                        points[k].distance - points[k - 1].distance),
               FromInt(gradientThreshold))

\* C10: when no pair of consecutive input samples has a gradient above 3
\* percent, detectClimbs returns the empty list.
C10_NoSteepPairNoClimb ==
    (Returned /\ NoSteepPair(elevationPoints)) => result = <<>>

\* the pair of smoothed samples k - 1, k lies at one distance
ZeroDistancePair(k) ==
    At(smoothedPoints, k).distance = At(smoothedPoints, k - 1).distance

\* C11: a pair of consecutive samples with zero distance delta has gradient 0
\* whatever its elevation change, so the iteration that handles it never takes
\* the scan from idle to climbing (and nothing is divided by zero)
C11_ZeroDistance ==
    [][(pc = "scan" /\ i < Len(smoothedPoints) /\ ZeroDistancePair(i))
        => /\ Gradient(At(smoothedPoints, i).elevation
                         - At(smoothedPoints, i - 1).elevation, 0) = FromInt(0)
           /\ (isClimbing' => isClimbing)]_vars

\* the scan has just handled a rising pair of zero distance delta while idle
C11_Witness ==
    /\ pc = "scan"
    /\ i >= 2
    /\ ZeroDistancePair(i - 1)
    /\ At(smoothedPoints, i - 1).elevation > At(smoothedPoints, i - 2).elevation
    /\ ~isClimbing
    /\ climbs = <<>>

\* the last pair of smoothed samples does not fall below the threshold
StillRising ==
    LET n == Len(smoothedPoints)
        last == At(smoothedPoints, n - 1)
        prev == At(smoothedPoints, n - 2)
    IN  ~RatLt(Gradient(last.elevation - prev.elevation, last.distance - prev.distance),
               FromInt(gradientThreshold))

\* the gates, in whole numbers: 0.5 km, 30 m, 3 percent
PassesGates(climbLength, elevationGain) ==
    /\ 2 * climbLength >= DistPerKm
    /\ elevationGain >= minElevationGain * ElevPerM
    /\ elevationGain * DistPerKm >= gradientThreshold * ElevPerM * climbLength * 10

\* the last candidate was closed at the last sample of a track still rising there
ForcedCandidate ==
    /\ Len(smoothedPoints) >= minSamples
    /\ Len(climbs) > 0
    /\ climbs[Len(climbs)].endDistance = LastDistance(smoothedPoints)
    /\ StillRising

C13_IdleAfterScan ==
    (pc \in {"mergeCall", "merge", "done"} /\ Len(smoothedPoints) >= minSamples)
        => /\ ~isClimbing
           /\ climbStart = <<>>
           /\ climbStartElevation = <<>>

\* C14: smoothing returns a sequence of the same length with the same
\* distances; every index k with 3 <= k < n - 3 carries the mean of the seven
\* original elevations at k - 3 .. k + 3, and the first three and the last
\* three samples keep their original elevation (of the smoother's result for
\* any track at the call, and of smoothedPoints as the scan starts)
C14_SmoothingContract ==
    (pc = "call" \/ (pc = "scan" /\ i = 1))
        => LET points == elevationPoints
               n == Len(points)
               smoothed == IF pc = "call" THEN smoothElevationForClimbDetection(points)
                           ELSE smoothedPoints
           IN  /\ Len(smoothed) = n
               /\ \A k \in 0..(n - 1) :
                     /\ At(smoothed, k).distance = At(points, k).distance
                     /\ IF 3 <= k /\ k < n - 3
                        THEN 7 * At(smoothed, k).elevation
                               = At(points, k - 3).elevation + At(points, k - 2).elevation
                                 + At(points, k - 1).elevation + At(points, k).elevation
                                 + At(points, k + 1).elevation + At(points, k + 2).elevation
                                 + At(points, k + 3).elevation
                        ELSE At(smoothed, k).elevation = At(points, k).elevation

\* the scan runs on a smoothed track whose interior differs from the original
C14_Witness ==
    /\ pc = "scan"
    /\ Len(smoothedPoints) = Len(elevationPoints)
    /\ \E k \in 3..(Len(smoothedPoints) - 4) :
          At(smoothedPoints, k).elevation # At(elevationPoints, k).elevation
    /\ \A k \in {0, 1, 2, Len(smoothedPoints) - 3, Len(smoothedPoints) - 2,
                 Len(smoothedPoints) - 1} :
          At(smoothedPoints, k) = At(elevationPoints, k)

\* the index of the smoothed sample at which the candidate was closed
ClosingIndex(c) ==
    CHOOSE k \in 0..(Len(smoothedPoints) - 1) :
        At(smoothedPoints, k).distance = c.endDistance

\* the highest elevation among the samples from .. to
RECURSIVE MaxOver(_, _, _)
MaxOver(sp, from, to) ==
    IF from >= to THEN At(sp, from).elevation
    ELSE LET rest == MaxOver(sp, from + 1, to)
         IN  IF At(sp, from).elevation > rest THEN At(sp, from).elevation ELSE rest

\* no sample of from .. to lies more than 10 m below the highest before it
NoEarlyStop(sp, from, to) ==
    \A j \in from..to :
        At(sp, j).elevation >= MaxOver(sp, from, j) - peakDrop * ElevPerM

\* the peak of candidate c is a sample among the closing sample and the
\* ahead samples after it, the highest of them when the scan does not stop early
PeakWithin(c, ahead) ==
    LET k == ClosingIndex(c)
        lim == IF k + ahead < Len(smoothedPoints) - 1 THEN k + ahead
               ELSE Len(smoothedPoints) - 1
    IN  /\ \E j \in k..lim :
              /\ At(smoothedPoints, j).distance = c.peakDistance
              /\ At(smoothedPoints, j).elevation = c.peakElevation
        /\ NoEarlyStop(smoothedPoints, k, lim)
              => c.peakElevation = MaxOver(smoothedPoints, k, lim)

\* as first stated: the closing sample and up to 20 samples after it
C15_TwentyAhead ==
    \A n \in 1..Len(climbs) : PeakWithin(climbs[n], peakLookAhead)

\* C15: peak refinement examines the closing sample and up to 19 samples
\* after it (indices i through i + 19) and none beyond: the peak is one of
\* them, and the highest of them when no early stop occurs
C15_NineteenAhead ==
    \A n \in 1..Len(climbs) : PeakWithin(climbs[n], peakLookAhead - 1)

\* a peak found 19 samples after the closing index, the sample after it higher still
C15_Witness ==
    \E n \in 1..Len(climbs) :
        LET c == climbs[n]
            k == ClosingIndex(c)
        IN  /\ k + peakLookAhead <= Len(smoothedPoints) - 1
            /\ c.peakDistance = At(smoothedPoints, k + peakLookAhead - 1).distance
            /\ c.peakElevation > c.endElevation
            /\ At(smoothedPoints, k + peakLookAhead).elevation > c.peakElevation

\* C16: peakElevation and peakDistance of a segment are the elevation and the
\* distance of one smoothed sample, and no smoothed sample inside the segment
\* (startDistance .. endDistance) is higher than the reported peak
C16_PeakIsHighest ==
    \A n \in 1..Len(climbs) :
        LET c == climbs[n]
        IN  /\ \E k \in 0..(Len(smoothedPoints) - 1) :
                  /\ At(smoothedPoints, k).distance = c.peakDistance
                  /\ At(smoothedPoints, k).elevation = c.peakElevation
            /\ \A k \in 0..(Len(smoothedPoints) - 1) :
                  (/\ c.startDistance <= At(smoothedPoints, k).distance
                   /\ At(smoothedPoints, k).distance <= c.endDistance)
                      => At(smoothedPoints, k).elevation <= c.peakElevation

\* the fields of segment c agree with one another and with two smoothed samples
ConsistentFields(c) ==
    /\ c.endDistance > c.startDistance
    /\ c.length = c.endDistance - c.startDistance
    /\ c.elevationGain = c.endElevation - c.startElevation
    /\ c.averageGradient = Rat(c.elevationGain * DistPerKm, ElevPerM * c.length * 10)
    /\ c.score = Rat(c.elevationGain * c.elevationGain * DistPerKm,
                     ElevPerM * ElevPerM * c.length * 100)
    /\ \E k \in 0..(Len(smoothedPoints) - 1) :
          /\ At(smoothedPoints, k).distance = c.startDistance
          /\ At(smoothedPoints, k).elevation = c.startElevation
    /\ \E k \in 0..(Len(smoothedPoints) - 1) :
          /\ At(smoothedPoints, k).distance = c.endDistance
          /\ At(smoothedPoints, k).elevation = c.endElevation

\* C17: in every segment (candidate or returned) endDistance > startDistance,
\* length = endDistance - startDistance, elevationGain = endElevation -
\* startElevation, averageGradient = elevationGain / (length * 1000) * 100 and
\* score = length * averageGradient^2; start and end are those of the window,
\* whatever peak the refinement reports
C17_FieldsConsistent ==
    /\ \A n \in 1..Len(climbs) : ConsistentFields(climbs[n])
    /\ Returned => \A n \in 1..Len(result) : ConsistentFields(result[n])

\* a returned segment whose refined peak lies beyond and above its end
C17_Witness ==
    /\ Returned
    /\ \E n \in 1..Len(result) :
          /\ result[n].peakElevation > result[n].endElevation
          /\ result[n].peakDistance > result[n].endDistance
          /\ ConsistentFields(result[n])

\* the track is one climb of 5 km and 400 m, every pair of samples at 8 percent
UniformRamp(points) ==
    /\ Len(points) >= minSamples
    /\ At(points, 0).distance = 0
    /\ At(points, 0).elevation = 0
    /\ LastDistance(points) = 5 * DistPerKm
    /\ points[Len(points)].elevation = 400 * ElevPerM
    /\ \A k \in 1..(Len(points) - 1) :
          LET dd == At(points, k).distance - At(points, k - 1).distance
              de == At(points, k).elevation - At(points, k - 1).elevation
          IN  dd > 0 /\ de * DistPerKm = 80 * ElevPerM * dd

\* C18: for an input of at least 10 samples that is a single climb of 5 km and
\* 400 m at a uniform 8 percent, detectClimbs returns exactly one segment, of
\* length 5, elevationGain 400, averageGradient 8, score 320 and category "1"
C18_UniformClimb ==
    (Returned /\ UniformRamp(elevationPoints))
        => /\ Len(result) = 1
           /\ result[1].length = 5 * DistPerKm
           /\ result[1].elevationGain = 400 * ElevPerM
           /\ result[1].averageGradient = FromInt(8)
           /\ result[1].score = FromInt(320)
           /\ result[1].category = "1"

\* the track covers 2 km and every sample lies within 5 m of a 10 percent grade
NoisyGrade(points) ==
    /\ Len(points) >= minSamples
    /\ At(points, 0).distance = 0
    /\ LastDistance(points) = 2 * DistPerKm
    /\ \A k \in 0..(Len(points) - 1) :
          Abs(At(points, k).elevation * DistPerKm
                - 100 * ElevPerM * At(points, k).distance) <= 5 * ElevPerM * DistPerKm
    /\ \E k \in 0..(Len(points) - 1) :
          At(points, k).elevation * DistPerKm # 100 * ElevPerM * At(points, k).distance

\* C19: for an input that is a 10 percent grade over 2 km with oscillations of
\* 5 m either way, at any sample spacing that gives at least 10 samples,
\* detectClimbs returns exactly one segment
C19_NoisyClimb ==
    (Returned /\ NoisyGrade(elevationPoints)) => Len(result) = 1

\* what the loop of mergeNearbyClimbs has kept after the first k candidates
MergePrefix(cs, k) == MergeLoop(SubSeq(cs, 1, k), 0, <<>>)

\* the place of the k-th candidate in the output: the last place in use once
\* the loop has handled it (places are appended or overwritten, never moved)
PlaceOf(cs, k) == Len(MergePrefix(cs, k))

\* some candidate of cs scores strictly higher than the segment the merger
\* returns in its place
DropsHigher(cs) ==
    \E k \in 1..Len(cs) :
        RatGt(cs[k].score, mergeNearbyClimbs(cs)[PlaceOf(cs, k)].score)

\* as first stated: among the sorted candidate lists there is one on which
\* mergeNearbyClimbs drops a candidate scoring strictly higher than the segment
\* kept in its place (the lists are searched once, where mergeNearbyClimbs is
\* entered with the empty list)
C20_SomeListDropsHigher ==
    (pc = "mergeCall" /\ climbs = <<>>)
        => \E n \in 0..MaxCandidates :
              \E cs \in CandidateListsOfLength(n) : DropsHigher(cs)

\* C20: on candidate lists sorted by startDistance mergeNearbyClimbs never
\* drops a candidate whose score is strictly higher than the score of the
\* segment it returns in that candidate's place
C20_KeptNotLower ==
    Returned
        => \A k \in 1..Len(climbs) :
              /\ PlaceOf(climbs, k) \in 1..Len(result)
              /\ ~RatGt(climbs[k].score, result[PlaceOf(climbs, k)].score)

\* a later candidate has unseated a kept segment, and a candidate after it,
\* lower in score, has been dropped
C20_Witness ==
    /\ Returned
    /\ Len(climbs) >= 3
    /\ Len(result) = 1
    /\ result[1] = climbs[2]
    /\ RatLt(climbs[1].score, climbs[2].score)
    /\ RatLt(climbs[3].score, climbs[2].score)

\* C21: detectClimbs holds no state across calls: whatever calls were made
\* before it, a call returns the list that detectClimbs returns for its
\* input alone, so two calls with equal inputs return equal lists
C21_Stateless ==
    Returned => result = detectClimbs(elevationPoints)

\* a call has returned one segment without merging, after an earlier call on
\* another track that merged and left its scan open
C21_Witness ==
    /\ Returned
    /\ Len(result) = 1
    /\ Len(climbs) = 1
    /\ Len(merged) >= 1
    /\ merged # result
    /\ mi >= 2

\* the track is one of the inputs: it starts at 0, 0 and continues by steps of Steps
WalkOfSteps(points) ==
    /\ At(points, 0) = [distance |-> 0, elevation |-> 0]
    /\ \A k \in 1..(Len(points) - 1) :
          LET dd == At(points, k).distance - At(points, k - 1).distance
              de == At(points, k).elevation - At(points, k - 1).elevation
          IN  \E step \in Steps : dd = step.dd /\ de = step.de * ElevPerM

LabelWord(c) ==
    IF c.peakElevation > 1500 * ElevPerM THEN "Col"
    ELSE IF c.peakElevation > 1000 * ElevPerM THEN "Mont"
    ELSE IF c.elevationGain * DistPerKm > 100 * ElevPerM * c.length THEN "Montee"
    ELSE IF c.length > 10 * DistPerKm THEN "Col"
    ELSE "Cote"

\* C23: the name of every returned segment is the label word chosen by the
\* first condition that holds (peak elevation > 1500 m, peak elevation >
\* 1000 m, gradient > 10 percent, length > 10 km, default otherwise),
\* followed by the peak elevation rounded to the nearest 100 m and the unit m
C23_Name ==
    Returned
        => \A n \in 1..Len(result) :
              LET c == result[n]
              IN  /\ c.name[1] = LabelWord(c)
                  /\ c.name[2] % 100 = 0
                  /\ 2 * Abs(c.name[2] * ElevPerM - c.peakElevation) <= 100 * ElevPerM
                  /\ c.name[3] = "m"

\* a returned segment steeper than 10 percent and longer than 10 km with a
\* peak not above 1000 m, named by its gradient and by the height of its
\* peak where the height of its end rounds otherwise
C23_Witness ==
    /\ Returned
    /\ \E n \in 1..Len(result) :
          LET c == result[n]
          IN  /\ c.peakElevation <= 1000 * ElevPerM
              /\ c.length > 10 * DistPerKm
              /\ c.name[1] = "Montee"
              /\ c.peakElevation > c.endElevation
              /\ 2 * Abs(c.name[2] * ElevPerM - c.endElevation) > 100 * ElevPerM

\* the gradient of the pair of smoothed samples k - 1, k, less 3 percent, up to
\* a positive factor (a pair of zero distance delta has gradient 0)
OverThree(k) ==
    LET dd == At(smoothedPoints, k).distance - At(smoothedPoints, k - 1).distance
        de == At(smoothedPoints, k).elevation - At(smoothedPoints, k - 1).elevation
    IN  IF dd > 0 THEN de * DistPerKm - 3 * ElevPerM * dd * 10 ELSE -3

\* C24: the scan is a two-state machine with at most one transition per
\* index: idle, it opens a climb at index i exactly when gradient(i) > 3 and
\* records the distance and elevation of sample i - 1 as the start; climbing,
\* it closes at index i exactly when gradient(i) < 3 or i is the last index; a
\* pair with gradient exactly 3 neither opens a climb nor closes one before
\* the last index
C24_TwoStates ==
    [][(pc = "scan" /\ i < Len(smoothedPoints))
        => /\ ~isClimbing
                => /\ isClimbing' <=> OverThree(i) > 0
                   /\ isClimbing'
                        => /\ climbStart' = <<At(smoothedPoints, i - 1).distance>>
                           /\ climbStartElevation'
                                = <<At(smoothedPoints, i - 1).elevation>>
           /\ isClimbing
                => (~isClimbing' <=> (OverThree(i) < 0 \/ i = Len(smoothedPoints) - 1))
           /\ (OverThree(i) = 0 /\ i < Len(smoothedPoints) - 1)
                => /\ isClimbing' = isClimbing
                   /\ climbs' = climbs]_vars

\* the scan has passed a pair of exactly 3 percent with its climb still open,
\* and before it a pair of exactly 3 percent without opening one
C24_Witness ==
    /\ pc = "scan"
    /\ i >= 4
    /\ i < Len(smoothedPoints)
    /\ isClimbing
    /\ OverThree(i - 1) = 0
    /\ OverThree(1) = 0
    /\ climbStart # <<0>>

\* the last index the peak loop reads for a window closed at index k: the one
\* before the first sample more than 10 m below the highest before it, or the
\* end of the look-ahead
LastScanned(k) ==
    LET lim == IF k + peakLookAhead - 1 < Len(smoothedPoints) - 1
               THEN k + peakLookAhead - 1 ELSE Len(smoothedPoints) - 1
        stops == { j \in k..lim :
                     At(smoothedPoints, j).elevation
                        < MaxOver(smoothedPoints, k, j) - 10 * ElevPerM }
    IN  IF stops = {} THEN lim
        ELSE (CHOOSE j \in stops : \A other \in stops : j <= other) - 1

\* the first index among k .. LastScanned(k) that carries their highest elevation
FirstHighest(k) ==
    CHOOSE j \in k..LastScanned(k) :
        /\ At(smoothedPoints, j).elevation = MaxOver(smoothedPoints, k, LastScanned(k))
        /\ \A other \in k..(j - 1) :
              At(smoothedPoints, other).elevation < At(smoothedPoints, j).elevation

PeakAsScanned(c) ==
    LET first == FirstHighest(ClosingIndex(c))
    IN  /\ c.peakElevation = At(smoothedPoints, first).elevation
        /\ c.peakDistance = At(smoothedPoints, first).distance
        /\ c.peakElevation >= c.endElevation
        /\ c.peakDistance >= c.endDistance

\* C25: peak refinement stops at the first scanned sample more than 10 m
\* below the running maximum; the reported peak is the first occurrence of the
\* highest elevation among the samples scanned before that stop, a drop of
\* exactly 10 m does not stop the scan, and peakElevation >= endElevation and
\* peakDistance >= endDistance hold for every segment
C25_PeakStop ==
    /\ \A n \in 1..Len(climbs) : PeakAsScanned(climbs[n])
    /\ Returned => \A n \in 1..Len(result) : PeakAsScanned(result[n])

\* a returned segment whose peak was found beyond a sample exactly 10 m below
\* the highest before it
C25_Witness ==
    /\ Returned
    /\ \E n \in 1..Len(result) :
          LET k == ClosingIndex(result[n])
              first == FirstHighest(k)
          IN  /\ result[n].peakElevation = At(smoothedPoints, first).elevation
              /\ \E j \in (k + 1)..(first - 1) :
                    At(smoothedPoints, j).elevation
                        = MaxOver(smoothedPoints, k, j) - 10 * ElevPerM

\* C26: the candidates the scan collects are sorted and do not overlap: for
\* consecutive candidates a, b, a.endDistance <= b.startDistance; a closed
\* window leaves the machine idle with no start recorded, and a window that is
\* open starts no earlier than the sample that closed the candidate before it
C26_SortedCandidates ==
    /\ \A n \in 1..(Len(climbs) - 1) :
          /\ climbs[n].endDistance <= climbs[n + 1].startDistance
          /\ climbs[n].startDistance < climbs[n + 1].startDistance
    /\ ~isClimbing => (climbStart = <<>> /\ climbStartElevation = <<>>)
    /\ (isClimbing /\ Len(climbs) > 0)
          => climbs[Len(climbs)].endDistance <= climbStart[1]

\* two candidates, the second opened at the very sample that closed the first,
\* whose refined peak lies beyond that sample
C26_Witness ==
    /\ pc = "mergeCall"
    /\ Len(climbs) >= 2
    /\ climbs[1].endDistance = climbs[2].startDistance
    /\ climbs[1].peakDistance > climbs[2].startDistance

\* C27: consecutive returned segments a, b satisfy a.peakDistance <=
\* b.startDistance, so no two returned segments share a peakDistance and no
\* two generated labels stand at the same distance
C27_DistinctPeaks ==
    Returned =>
        /\ \A n \in 1..(Len(result) - 1) :
              result[n].peakDistance <= result[n + 1].startDistance
        /\ \A m, n \in 1..Len(result) :
              m # n => result[m].peakDistance # result[n].peakDistance
        /\ \A m, n \in 1..Len(autoLabels(result)) :
              m # n => autoLabels(result)[m].distance # autoLabels(result)[n].distance

\* the elements of cs at the indices in S, in the order of cs
RECURSIVE Pick(_, _, _)
Pick(cs, S, k) ==
    IF k > Len(cs) THEN <<>>
    ELSE IF k \in S THEN <<cs[k]>> \o Pick(cs, S, k + 1)
         ELSE Pick(cs, S, k + 1)

\* out is cs with the candidates at some indices left out and nothing else
\* changed, and each candidate left out has a segment of out scoring at least
\* as high
SelectionOf(cs, out) ==
    \E S \in SUBSET (1..Len(cs)) :
        /\ out = Pick(cs, S, 1)
        /\ \A k \in (1..Len(cs)) \ S :
              \E n \in 1..Len(out) : RatGe(out[n].score, cs[k].score)

\* C28: mergeNearbyClimbs only selects: the list it returns is a subsequence
\* of its input, in the input's order and with every record unchanged, and
\* every candidate it leaves out has a returned segment whose score is at
\* least that candidate's
C28_OnlySelects ==
    /\ Returned => SelectionOf(climbs, result)
    /\ pc = "merge" => SelectionOf(SubSeq(climbs, 1, mi), merged)

\* a better candidate has replaced a kept one and a worse one has been left
\* out, while a distant candidate is kept beside them
C28_Witness ==
    /\ Returned
    /\ Len(climbs) = 4
    /\ Len(result) = 2
    /\ result[1] = climbs[2]
    /\ result[2] = climbs[4]
    /\ RatLt(climbs[1].score, climbs[2].score)
    /\ RatLt(climbs[3].score, climbs[2].score)
    /\ climbs[2].startDistance > climbs[1].startDistance

\* C29: whenever add-label mode is on, the trimmed pending name is not empty:
\* the toggle button that leaves the mode is enabled, and a click on any point
\* of the chart adds exactly one label
C29_AddingHasName ==
    isAddingLabel =>
        /\ trim(newLabelName) # <<>>
        /\ ~ToggleDisabled
        /\ \A n \in 1..Len(gpxData[1].elevationPoints) :
              LET point == gpxData[1].elevationPoints[n]
              IN  Len(LabelsAfterClick(point.distance, point.elevation))
                      = Len(labels) + 1

\* the customX and customY of every label
CustomPositions == [n \in 1..Len(labels) |-> <<labels[n].id, labels[n].customX, labels[n].customY>>]

\* C30: a drag lasts only while the button is held: dragState.isDragging is
\* false whenever the button is up, and no step taken with the button up
\* changes the customX or customY of a label
C30_DragOnlyWhileHeld ==
    /\ [](~buttonDown => ~dragState.isDragging)
    /\ [][(~buttonDown /\ ~buttonDown') => CustomPositions' = CustomPositions]_vars

====
